---------------------------- MODULE Spec2Model ----------------------------
(***************************************************************************)
(* The `join` command of package multi (GetJoinCommand): for every ordered *)
(* pair (dst, src) of the cluster list it reads the pilot service          *)
(* account's secret from src and creates (or patches) the secret           *)
(* istio-mc-<src> in namespace istio-system of dst.                        *)
(*                                                                         *)
(* Line numbers refer to src/unnamed/part_000, whose first file (lines     *)
(* 1-487) holds the command with the exchange loop.  Its lines 137-346     *)
(* are the body of `if false { ... }`: they never run and contribute only  *)
(* the guard LegacyPathEnabled below.                                      *)
(*                                                                         *)
(* The clusters are the environment.  Each cluster's service account and   *)
(* pilot secret are fixed for a behaviour; the secrets of namespace        *)
(* istio-system change only through the command's own create and patch     *)
(* calls.  Every API call and every client construction may also fail      *)
(* with an error of its own (network, credentials, authorisation).         *)
(***************************************************************************)
EXTENDS Integers, Sequences, FiniteSets, TLC

\* ------------------------------------------------------------- bounds
\* Longest --clusters list explored.
MaxClusters == 3
\* Most secrets a service account references.
MaxSecretRefs == 2
\* Invocations of the command in a row (SpecTwice only).
MaxRuns == 2

\* Context names that may appear on the command line or in the kubeconfig.
Ids == {"a", "b", "c"}

Range(s) == {s[k] : k \in 1..Len(s)}

ClusterLists == UNION {[1..n -> Ids] : n \in 0..MaxClusters}

\* ---------------------------------------------------- program constants
namespace == "istio-system"
serviceAccountName == "istio-pilot-service-account"
\* Labels and data are sets of <<key, value>> pairs.
MultiClusterLabels == {<<"istio/multiCluster", "true">>}
DataKeys == {"ca.crt", "token"}
\* The guard of the disabled block: `if false {`.
LegacyPathEnabled == FALSE

\* fmt.Sprintf("istio-mc-%v", src)
SecretName(src) == "istio-mc-" \o src

\* config.Contexts[dst].Cluster and config.Clusters[clusterName].Server:
\* values of the local kubeconfig, one cluster entry per context.
ClusterOf(ctx) == "cluster-" \o ctx
ServerOf(clusterName) == "https://" \o clusterName

VARIABLES
  clusters,         \* args.clusters, the --clusters flag
  contexts,         \* names of config.Contexts
  serviceAccounts,  \* per cluster: len(Secrets) of the pilot service account
  pilotSecrets,     \* per cluster: the keys of Data of the referenced secret
  store,            \* per cluster: the set of its secret objects
  pc,               \* position in RunE
  i,                \* index of dst in the outer loop
  j,                \* index of src in the inner loop
  joining,          \* the "joining src to dst" lines printed, in order
  sc,               \* the api.Config built for the current pair
  srcSecret,        \* the v1.Secret built for the current pair
  lastCall,         \* the most recent API call and its result
  createResults,    \* results Create returned in this run
  patchResults,     \* results Patch returned in this run
  diag,             \* what the failing step printed before exiting
  run,              \* which invocation this is
  storeAtStart      \* store as the previous invocation left it

vars == <<clusters, contexts, serviceAccounts, pilotSecrets, store, pc, i, j,
          joining, sc, srcSecret, lastCall, createResults, patchResults,
          diag, run, storeAtStart>>

world == <<clusters, contexts, serviceAccounts, pilotSecrets>>

\* Values for "nothing yet".
NoSecret == [name |-> "", namespace |-> "", labels |-> {}, data |-> {}]
NoCall == [op |-> "none", cluster |-> "", namespace |-> "", name |-> "",
           body |-> NoSecret, result |-> "", type |-> ""]
NoConfig == [cluster |-> "", server |-> "", ca |-> <<>>, token |-> <<>>]
NoDiag == [msg |-> "", arg |-> ""]

\* The clusters a run can reach: named on the command line and configured.
Reachable(cl, ctx) == Range(cl) \cap ctx

\* A secret some earlier setup left behind under the name the join uses for
\* source s: it has data of its own and lacks the multi-cluster label.
StaleSecret(s) ==
  [name |-> SecretName(s), namespace |-> namespace,
   labels |-> {}, data |-> {<<"config", "stale">>}]

\* The stores a run may start from: all empty, or one cluster holding one
\* stale secret named after another listed cluster.
InitStores(R, L) ==
  {[c \in R |-> {}]} \cup
  {[c \in R |-> IF c = p[1] THEN {StaleSecret(p[2])} ELSE {}] :
     p \in {q \in R \X L : q[1] # q[2]}}

Exited == pc \in {"done", "fatal", "error"}
\* return nil -> 0; log.Fatal -> os.Exit(1); a returned error -> non-zero.
ExitCode == IF pc = "done" THEN 0 ELSE 1

Init ==
  /\ clusters \in ClusterLists
  /\ contexts \in SUBSET Ids
  /\ serviceAccounts \in [Reachable(clusters, contexts) -> 0..MaxSecretRefs]
  /\ pilotSecrets \in [Reachable(clusters, contexts) -> SUBSET DataKeys]
  \* a secret that no service account names exactly is never read
  /\ \A c \in Reachable(clusters, contexts) :
        serviceAccounts[c] # 1 => pilotSecrets[c] = DataKeys
  /\ store \in InitStores(Reachable(clusters, contexts), Range(clusters))
  /\ pc = "start"
  /\ i = 1
  /\ j = 1
  /\ joining = <<>>
  /\ sc = NoConfig
  /\ srcSecret = NoSecret
  /\ lastCall = NoCall
  /\ createResults = {}
  /\ patchResults = {}
  /\ diag = NoDiag
  /\ run = 1
  /\ storeAtStart = store

\* A failure that is only logged (log.Print): the process keeps running.
FatalOnlyLogs(msg, arg) ==
  /\ pc' = pc
  /\ diag' = [msg |-> msg, arg |-> arg]

\* log.Fatal(...): print and os.Exit(1); nothing else changes.
Fatal(msg, arg) ==
  /\ pc' = "fatal"
  /\ diag' = [msg |-> msg, arg |-> arg]

\* ------------------------------------------------------------ API server
\* The secrets of cluster c with this namespace and name (none or one).
Find(c, ns, n) == {s \in store[c] : s.namespace = ns /\ s.name = n}

\* A strategic merge of map m into map old: m's keys win, the others stay.
MergeMap(old, m) == m \cup {p \in old : \A q \in m : q[1] # p[1]}

\* A patch applied as a replacement (PUT): what the object held is lost.
PatchedReplaces(old, p) == p

\* The object a strategic merge-patch leaves: labels and data are merged key
\* by key; a field the patch does not carry is left as it was.
Patched(old, p) ==
  [name |-> old.name, namespace |-> old.namespace,
   labels |-> MergeMap(old.labels, p.labels),
   data |-> MergeMap(old.data, p.data)]

\* ------------------------------------------------------------- the command
dst == clusters[i]
src == clusters[j]

\* BuildClientConfig(kubeconfig, ctx).ClientConfig(): a context the loaded
\* configuration does not hold cannot be resolved.
ContextResolves(ctx) == ctx \in contexts

\* A loop that forgets to skip the pair (c, c).
IsSelfNever(s, d) == FALSE

\* `if src == dst { continue }`
IsSelf(s, d) == s = d

\* A check that only rejects the empty list: `len(...) == 0`.
BadSecretCountOnlyEmpty(n) == n = 0

\* `if len(serviceAccount.Secrets) != 1 { log.Fatal(err) }`
BadSecretCount(n) == n # 1

\* A lookup whose `ok` is not tested for token.
HasKeyTokenUnchecked(keys, k) == k = "token" \/ k \in keys

\* `caData, ok := pilotSecret.Data["ca.crt"]` / `token, ok := ...["token"]`
HasKey(keys, k) == k \in keys

\* A create whose already-exists error is dropped like any other.
IsAlreadyExistsDropped(result) == FALSE

\* `errors.IsAlreadyExists(err)` on Create's result.
IsAlreadyExists(result) == result = "AlreadyExists"

\* The guards of the disabled block (lines 141-144, 149-154, 181-183).
LegacyPreflightExits ==
  \/ Len(clusters) # 2
  \/ \E k \in 1..Len(clusters) : clusters[k] \notin contexts

\* RunE, lines 131-135 and the guard of line 137.
StartOk ==
  /\ pc = "start"
  /\ IF LegacyPathEnabled /\ LegacyPreflightExits
       THEN Fatal("preflight", "")
       ELSE pc' = "dst" /\ diag' = diag
  /\ i' = 1
  /\ UNCHANGED <<world, store, j, joining, sc, srcSecret, lastCall,
                 createResults, patchResults, run, storeAtStart>>

\* GetStartingConfig fails: `return err`.
StartConfigError ==
  /\ pc = "start"
  /\ pc' = "error"
  /\ diag' = [msg |-> "config", arg |-> ""]
  /\ UNCHANGED <<world, store, i, j, joining, sc, srcSecret, lastCall,
                 createResults, patchResults, run, storeAtStart>>

\* `for _, dst := range args.clusters` is exhausted: `return nil`.
OuterDone ==
  /\ pc = "dst"
  /\ i > Len(clusters)
  /\ pc' = "done"
  /\ UNCHANGED <<world, store, i, j, joining, sc, srcSecret, lastCall,
                 createResults, patchResults, diag, run, storeAtStart>>

\* Lines 352-360: the client of dst is built.
DstHandleOk ==
  /\ pc = "dst"
  /\ i <= Len(clusters)
  /\ ContextResolves(dst)
  /\ pc' = "src"
  /\ j' = 1
  /\ UNCHANGED <<world, store, i, joining, sc, srcSecret, lastCall,
                 createResults, patchResults, diag, run, storeAtStart>>

\* A failed client that only skips its destination: `continue`.
DstHandleFailSkips ==
  /\ pc = "dst"
  /\ i <= Len(clusters)
  /\ i' = i + 1
  /\ diag' = [msg |-> "client", arg |-> dst]
  /\ UNCHANGED <<world, store, pc, j, joining, sc, srcSecret, lastCall,
                 createResults, patchResults, run, storeAtStart>>

\* Lines 352-360: ClientConfig() or NewForConfig fails: log.Fatal(err).
DstHandleFail ==
  /\ pc = "dst"
  /\ i <= Len(clusters)
  /\ Fatal("client", dst)
  /\ UNCHANGED <<world, store, i, j, joining, sc, srcSecret, lastCall,
                 createResults, patchResults, run, storeAtStart>>

\* `for _, src := range args.clusters` is exhausted: next dst.
InnerDone ==
  /\ pc = "src"
  /\ j > Len(clusters)
  /\ i' = i + 1
  /\ pc' = "dst"
  /\ UNCHANGED <<world, store, j, joining, sc, srcSecret, lastCall,
                 createResults, patchResults, diag, run, storeAtStart>>

\* Lines 363-366: skip self.
SkipSelf ==
  /\ pc = "src"
  /\ j <= Len(clusters)
  /\ IsSelf(src, dst)
  /\ j' = j + 1
  /\ UNCHANGED <<world, store, pc, i, joining, sc, srcSecret, lastCall,
                 createResults, patchResults, diag, run, storeAtStart>>

\* Lines 367-389: the pair is announced and the client of src is built.
SrcHandleOk ==
  /\ pc = "src"
  /\ j <= Len(clusters)
  /\ ~IsSelf(src, dst)
  /\ joining' = Append(joining, <<src, dst>>)
  /\ ContextResolves(src)
  /\ pc' = "getSA"
  /\ UNCHANGED <<world, store, i, j, sc, srcSecret, lastCall,
                 createResults, patchResults, diag, run, storeAtStart>>

\* Lines 367-389: ClientConfig() or NewForConfig fails for src.
SrcHandleFail ==
  /\ pc = "src"
  /\ j <= Len(clusters)
  /\ ~IsSelf(src, dst)
  /\ joining' = Append(joining, <<src, dst>>)
  /\ Fatal("client", src)
  /\ UNCHANGED <<world, store, i, j, sc, srcSecret, lastCall,
                 createResults, patchResults, run, storeAtStart>>

\* The API call just made, with what it returned.
Call(op, c, n, body, result) ==
  [op |-> op, cluster |-> c, namespace |-> namespace, name |-> n,
   body |-> body, result |-> result,
   type |-> IF op = "patch" THEN "StrategicMergePatch" ELSE ""]

\* Lines 392-395: ServiceAccounts(namespace).Get fails: log.Fatal(err).
GetServiceAccountError ==
  /\ pc = "getSA"
  /\ lastCall' = Call("getServiceAccount", src, serviceAccountName, NoSecret, "error")
  /\ Fatal("serviceaccount", serviceAccountName)
  /\ UNCHANGED <<world, store, i, j, joining, sc, srcSecret,
                 createResults, patchResults, run, storeAtStart>>

\* Lines 392-399: the service account is read and its secrets are counted.
GetServiceAccountOk ==
  /\ pc = "getSA"
  /\ lastCall' = Call("getServiceAccount", src, serviceAccountName, NoSecret, "ok")
  /\ IF BadSecretCount(serviceAccounts[src])
       THEN Fatal("<nil>", "")
       ELSE pc' = "getSecret" /\ diag' = diag
  /\ UNCHANGED <<world, store, i, j, joining, sc, srcSecret,
                 createResults, patchResults, run, storeAtStart>>

\* serviceAccount.Secrets[0].Name: the one secret the account names.
PilotSecretName(c) == "istio-pilot-service-account-token-" \o c

\* Lines 402-405: Secrets(namespace).Get fails: log.Fatal(err).
GetSecretError ==
  /\ pc = "getSecret"
  /\ lastCall' = Call("getSecret", src, PilotSecretName(src), NoSecret, "error")
  /\ Fatal("secret", PilotSecretName(src))
  /\ UNCHANGED <<world, store, i, j, joining, sc, srcSecret,
                 createResults, patchResults, run, storeAtStart>>

\* Lines 417-431: the api.Config for dst's cluster with src's credentials.
BuildConfig(s, d) ==
  [cluster |-> ClusterOf(d), server |-> ServerOf(ClusterOf(d)),
   ca |-> <<s, "ca.crt">>, token |-> <<s, "token">>]

\* The secret as it would be with the descriptor of s embedded as its data.
BuildSecretWithData(s) ==
  [name |-> SecretName(s), namespace |-> namespace,
   labels |-> MultiClusterLabels, data |-> {<<s, "descriptor">>}]

\* Lines 433-441: the v1.Secret: ObjectMeta only, no Data.
BuildSecret(s) ==
  [name |-> SecretName(s), namespace |-> namespace,
   labels |-> MultiClusterLabels, data |-> {}]

\* Lines 402-441: the secret is read, its two fields are checked, and the
\* api.Config and the v1.Secret are built.
GetSecretOk ==
  /\ pc = "getSecret"
  /\ lastCall' = Call("getSecret", src, PilotSecretName(src), NoSecret, "ok")
  /\ IF ~HasKey(pilotSecrets[src], "ca.crt")
       THEN Fatal("is missing ca.crt", PilotSecretName(src))
            /\ UNCHANGED <<sc, srcSecret>>
       ELSE IF ~HasKey(pilotSecrets[src], "token")
         THEN Fatal("is missing token", PilotSecretName(src))
              /\ UNCHANGED <<sc, srcSecret>>
         ELSE /\ sc' = BuildConfig(src, dst)
              /\ srcSecret' = BuildSecret(src)
              /\ pc' = "create"
              /\ diag' = diag
  /\ UNCHANGED <<world, store, i, j, joining,
                 createResults, patchResults, run, storeAtStart>>

\* The inner loop's body ends without advancing: the same pair is retried.
NextPairStuck ==
  /\ pc' = "src"
  /\ j' = j
  /\ sc' = NoConfig
  /\ srcSecret' = NoSecret

\* The end of the inner loop's body: the pair's locals go out of scope.
NextPair ==
  /\ pc' = "src"
  /\ j' = j + 1
  /\ sc' = NoConfig
  /\ srcSecret' = NoSecret

\* Line 443 on: what follows Create's result.  Only already-exists enters
\* the if-body; any other result, an error included, falls through.
AfterCreate(result) ==
  /\ lastCall' = Call("create", dst, srcSecret.name, srcSecret, result)
  /\ createResults' = createResults \cup {result}
  /\ IF IsAlreadyExists(result)
       THEN pc' = "patch" /\ UNCHANGED <<j, sc, srcSecret>>
       ELSE NextPair
  /\ UNCHANGED <<world, i, joining, patchResults, diag, run, storeAtStart>>

\* Create succeeds, but the object lands in the cluster it was read from.
CreateOkOnSource ==
  /\ pc = "create"
  /\ Find(dst, srcSecret.namespace, srcSecret.name) = {}
  /\ store' = [store EXCEPT ![src] = @ \cup {srcSecret}]
  /\ AfterCreate("ok")

\* Create succeeds: dst now holds the object.
CreateOk ==
  /\ pc = "create"
  /\ Find(dst, srcSecret.namespace, srcSecret.name) = {}
  /\ store' = [store EXCEPT ![dst] = @ \cup {srcSecret}]
  /\ AfterCreate("ok")

\* Create is refused: dst holds an object of that name.
CreateAlreadyExists ==
  /\ pc = "create"
  /\ Find(dst, srcSecret.namespace, srcSecret.name) # {}
  /\ store' = store
  /\ AfterCreate("AlreadyExists")

\* Create fails with any other error.
CreateError ==
  /\ pc = "create"
  /\ store' = store
  /\ AfterCreate("error")

\* Lines 446-453: the patch's error and result are printed, nothing more.
AfterPatch(result) ==
  /\ lastCall' = Call("patch", dst, srcSecret.name, srcSecret, result)
  /\ patchResults' = patchResults \cup {result}
  /\ NextPair
  /\ UNCHANGED <<world, i, joining, createResults, diag, run, storeAtStart>>

\* The strategic merge-patch is applied to the object dst holds.
PatchOk ==
  /\ pc = "patch"
  /\ \E old \in Find(dst, srcSecret.namespace, srcSecret.name) :
        store' = [store EXCEPT ![dst] = (@ \ {old}) \cup {Patched(old, srcSecret)}]
  /\ AfterPatch("ok")

\* The patch fails.
PatchError ==
  /\ pc = "patch"
  /\ store' = store
  /\ AfterPatch("error")

\* The command is invoked again against the same clusters once it has
\* completed.
Rerun ==
  /\ pc = "done"
  /\ run < MaxRuns
  /\ run' = run + 1
  /\ storeAtStart' = store
  /\ pc' = "start"
  /\ i' = 1
  /\ j' = 1
  /\ joining' = <<>>
  /\ lastCall' = NoCall
  /\ createResults' = {}
  /\ patchResults' = {}
  /\ diag' = NoDiag
  /\ UNCHANGED <<world, store, sc, srcSecret>>

Next ==
  \/ StartOk
  \/ StartConfigError
  \/ OuterDone
  \/ DstHandleOk
  \/ DstHandleFail
  \/ InnerDone
  \/ SkipSelf
  \/ SrcHandleOk
  \/ SrcHandleFail
  \/ GetServiceAccountOk
  \/ GetServiceAccountError
  \/ GetSecretOk
  \/ GetSecretError
  \/ CreateOk
  \/ CreateAlreadyExists
  \/ CreateError
  \/ PatchOk
  \/ PatchError

\* One invocation of the command.
Spec == Init /\ [][Next]_vars

\* Up to MaxRuns invocations in a row.
SpecTwice == Init /\ [][Next \/ Rerun]_vars

\* The run with every step that is possible eventually taken: each API call
\* returns and the process is scheduled.
SpecFair == Spec /\ WF_vars(Next)

\* ================================================================ claims
Listed == Range(clusters)
Distinct(s) == Cardinality(Range(s)) = Len(s)
Count(seq, x) == Cardinality({k \in 1..Len(seq) : seq[k] = x})
Missing == {c \in Listed : c \notin contexts}
\* The service account of c references exactly one secret, which holds
\* ca.crt and token.
CredentialsOk(c) == serviceAccounts[c] = 1 /\ DataKeys \subseteq pilotSecrets[c]
\* Cluster d holds istio-mc-<s> in istio-system with the multi-cluster label.
HoldsJoinSecret(d, s) ==
  \E x \in Find(d, namespace, SecretName(s)) : MultiClusterLabels \subseteq x.labels
\* No step is ever taken by a process that has exited through log.Fatal.
NothingAfterFatal == [][pc # "fatal"]_vars

\* C1: a completed run over a list of N distinct identifiers has announced
\* and attempted exactly one exchange per ordered pair of different listed
\* clusters, N*(N-1) in all, and none for a pair (c, c).
C1_OneAttemptPerOrderedPair ==
  (pc = "done" /\ Distinct(clusters)) =>
     /\ Len(joining) = Len(clusters) * (Len(clusters) - 1)
     /\ \A s \in Ids, d \in Ids :
          Count(joining, <<s, d>>) =
            IF s # d /\ s \in Listed /\ d \in Listed THEN 1 ELSE 0

\* A completed run over three distinct clusters: six attempts.
C1_Witness ==
  pc = "done" /\ Len(clusters) = 3 /\ Distinct(clusters) /\ Len(joining) = 6

\* C2 (as claimed): once a run has completed without a fatal error, every
\* destination holds the labelled secret istio-mc-<source> of every other
\* listed cluster whose credentials are in order.
C2_CompletedRunLeavesJoinSecrets ==
  pc = "done" =>
    \A d \in Listed, s \in Listed :
      (s # d /\ CredentialsOk(s)) => HoldsJoinSecret(d, s)

\* C3: when Create reports already-exists, the very next step of the run is
\* the merge-patch of the same name with the same object on the same
\* destination; neither step prints a diagnostic or exits, and after the
\* patch, whatever it returned, the run goes on with the next source.
C3_AlreadyExistsBecomesPatch ==
  [][ /\ (pc = "create" /\ lastCall'.op = "create"
            /\ lastCall'.result = "AlreadyExists")
          => /\ pc' = "patch"
             /\ diag' = diag
             /\ <<i', j', srcSecret', store'>> = <<i, j, srcSecret, store>>
      /\ pc = "patch"
          => /\ lastCall.op = "create" /\ lastCall.result = "AlreadyExists"
             /\ lastCall'.op = "patch"
             /\ lastCall'.cluster = lastCall.cluster
             /\ lastCall'.namespace = lastCall.namespace
             /\ lastCall'.name = lastCall.name
             /\ lastCall'.body = lastCall.body
             /\ lastCall'.type = "StrategicMergePatch"
             /\ pc' = "src" /\ i' = i /\ j' = j + 1
             /\ diag' = diag
    ]_vars

\* A run that met an existing secret, patched it, and completed (exit 0).
C3_Witness ==
  /\ pc = "done" /\ ExitCode = 0
  /\ "AlreadyExists" \in createResults
  /\ lastCall.op = "patch"

\* C4 (as claimed): a second invocation that completes leaves every store
\* as the first left it, and each of its creates reported already-exists.
C4_SecondRunChangesNothing ==
  (pc = "done" /\ run = 2) =>
     /\ store = storeAtStart
     /\ createResults \subseteq {"AlreadyExists"}

\* C5: a service account that references no secret, or more than one, ends
\* the process in the step that counted them: exit 1, no object built or
\* written for the pair, and no step after it.
C5_BadSecretCountIsFatal ==
  /\ [][ (pc = "getSA" /\ serviceAccounts[src] # 1)
           => /\ pc' = "fatal"
              /\ store' = store
              /\ srcSecret' = NoSecret
              /\ lastCall'.op = "getServiceAccount" ]_vars
  /\ NothingAfterFatal

\* The process after reading a service account with two secrets, once an
\* earlier pair of the run was written.
C5_Witness ==
  /\ pc = "fatal" /\ ExitCode = 1 /\ diag.msg = "<nil>"
  /\ serviceAccounts[src] = 2
  /\ \E c \in DOMAIN store : \E x \in store[c] : x.labels # {}

\* C6: a pilot secret without ca.crt or without token ends the process in
\* the step that read it: exit 1, neither the api.Config nor the v1.Secret
\* built, nothing written, and no step after it.
C6_MissingFieldIsFatal ==
  /\ [][ (pc = "getSecret" /\ ~(DataKeys \subseteq pilotSecrets[src]))
           => /\ pc' = "fatal"
              /\ srcSecret' = NoSecret
              /\ sc' = NoConfig
              /\ store' = store
              /\ lastCall'.op = "getSecret" ]_vars
  /\ NothingAfterFatal

\* The process after reading a secret that has ca.crt and no token.
C6_Witness ==
  /\ pc = "fatal" /\ ExitCode = 1 /\ diag.msg = "is missing token"
  /\ pilotSecrets[src] = {"ca.crt"}
  /\ srcSecret = NoSecret

\* C7 (as claimed): once Create has returned an error other than
\* already-exists, the process has exited through log.Fatal.
C7_CreateErrorIsFatal ==
  "error" \in createResults => pc = "fatal"

\* C8 (as claimed): once the fallback Patch has failed, the process has
\* exited through log.Fatal.
C8_PatchErrorIsFatal ==
  "error" \in patchResults => pc = "fatal"

\* C9 (as claimed): with a listed identifier that is no context of the
\* configuration, no API call is ever made and the run never completes.
C9_MissingContextStopsBeforeAnyCall ==
  Missing # {} => (lastCall = NoCall /\ pc # "done")

\* C10 (as claimed): with a list whose length is not 2 the run never completes
\* with exit code 0, announces no exchange and makes no API call.
C10_ExactlyTwoClusters ==
  Len(clusters) # 2 => (pc # "done" /\ joining = <<>> /\ lastCall = NoCall)

\* C11: every step that prints a failure diagnostic ends the process at once
\* (log.Fatal, or the returned configuration error) and leaves every
\* cluster's secrets exactly as the earlier exchanges wrote them; no step,
\* hence no API call, follows the exit.
C11_FailFastNoRollback ==
  /\ [][ diag' # diag
           => /\ pc' \in {"fatal", "error"}
              /\ store' = store ]_vars
  /\ [][ ~Exited ]_vars

\* A fatal exit on a failed API call after an earlier exchange of the run
\* wrote its secret, which is still there.
C11_Witness ==
  /\ pc = "fatal" /\ lastCall.result = "error"
  /\ store # storeAtStart
  /\ \E c \in DOMAIN store : \E x \in store[c] :
        x.labels = MultiClusterLabels /\ x \notin storeAtStart[c]

\* C12: a client that cannot be built, for a destination or for a source,
\* ends the process in that step (exit 1) with no cluster skipped, no API
\* call made and nothing written; a listed identifier without a context never
\* gets a client; and a source is read only after the destination's client
\* and then its own were built.
C12_HandleFailureIsFatal ==
  /\ [][ /\ diag'.msg = "client"
            => /\ pc' = "fatal"
               /\ <<i', j', lastCall', store'>> = <<i, j, lastCall, store>>
         /\ (pc = "dst" /\ pc' # "fatal")
            => \/ i > Len(clusters) /\ pc' = "done"
               \/ i <= Len(clusters) /\ ContextResolves(dst)
                    /\ pc' = "src" /\ i' = i /\ j' = 1
         /\ pc' = "getSA"
            => /\ pc = "src" /\ <<i', j'>> = <<i, j>>
               /\ ContextResolves(dst) /\ ContextResolves(src)
         /\ lastCall'.op \in {"getServiceAccount", "getSecret"}
            => lastCall' = lastCall \/ pc \in {"getSA", "getSecret"}
       ]_vars
  /\ [][ pc # "fatal" ]_vars

\* The client of a source fails after its destination's client was built
\* and an earlier source of that destination was exchanged.
C12_Witness ==
  /\ pc = "fatal" /\ diag.msg = "client"
  /\ j <= Len(clusters) /\ diag.arg = src /\ src # dst
  /\ lastCall.op \in {"create", "patch"} /\ lastCall.cluster = dst

\* What destination d holds for source s after a join, given the stores st
\* the run started from: the labelled secret, with the data and the other
\* labels of the object of that name that d held before, if any.
JoinedSecret(st, d, s) ==
  LET before == {x \in st[d] : x.namespace = namespace /\ x.name = SecretName(s)}
  IN [name |-> SecretName(s), namespace |-> namespace,
      labels |-> MultiClusterLabels \cup
                 {l \in UNION {x.labels : x \in before} :
                    \A m \in MultiClusterLabels : m[1] # l[1]},
      data |-> UNION {x.data : x \in before}]

\* The stores a join over the set L of identifiers leaves, given st.
JoinedStores(st, L) ==
  [d \in DOMAIN st |->
     {x \in st[d] : \A s \in L \ {d} : x.name # SecretName(s)}
       \cup {JoinedSecret(st, d, s) : s \in L \ {d}}]

\* No API call of this run returned an error.
NoCallFailed == "error" \notin (createResults \cup patchResults)

\* C13: a repeated identifier only repeats operations that change nothing
\* further.  What a completed run leaves depends on the list only through
\* the set of its identifiers: for each destination and each other listed
\* source the destination holds either the joined secret or (only when a
\* call failed) what it held at the start, every other object is as at the
\* start; when no call failed the stores are exactly those of a join over
\* the list without its duplicates; and at no time does a destination hold
\* more than one secret per source identifier.
C13_DuplicatesChangeNothing ==
  /\ pc = "done" =>
       \A d \in DOMAIN store :
         /\ \A s \in Listed \ {d} :
              \/ Find(d, namespace, SecretName(s))
                   = {JoinedSecret(storeAtStart, d, s)}
              \/ /\ ~NoCallFailed
                 /\ Find(d, namespace, SecretName(s))
                      = {x \in storeAtStart[d] : x.name = SecretName(s)}
         /\ \A x \in store[d] \cup storeAtStart[d] :
              (\A s \in Listed \ {d} : x.name # SecretName(s))
                 => x \in store[d] \cap storeAtStart[d]
  /\ (pc = "done" /\ NoCallFailed)
       => store = JoinedStores(storeAtStart, Listed)
  /\ \A d \in DOMAIN store : \A s \in Ids :
       Cardinality(Find(d, namespace, SecretName(s))) <= 1

\* A completed run over a list with a repeated identifier, in which a
\* repeated pair met the secret its first occurrence had created.
C13_Witness ==
  /\ pc = "done" /\ NoCallFailed
  /\ ~Distinct(clusters) /\ Cardinality(Listed) >= 2
  /\ {"ok", "AlreadyExists"} \subseteq createResults

PcRank ==
  CASE pc = "getSA" -> 1 [] pc = "getSecret" -> 2
    [] pc = "create" -> 3 [] pc = "patch" -> 4 [] OTHER -> 0

StepsPerDst == 5 * (Len(clusters) + 2)

Progress ==
  IF pc = "start" THEN 0
  ELSE i * StepsPerDst + (IF pc = "dst" THEN 0 ELSE 5 * j + PcRank)

\* C16: every run ends, in completion or in a fatal exit.  Each step either
\* exits or moves strictly forward through the two loops, so no step is
\* repeated and no failed call is retried; a run that has not exited always
\* has a next step; the forward position is bounded by the list's length;
\* and a pair is announced at most once per occurrence in the list.
C16_RunTerminates ==
  /\ <>Exited
  /\ [][ Exited' \/ Progress' > Progress ]_vars
  /\ [][ ~Exited ]_vars
  /\ [](~Exited => /\ ENABLED Next
                   /\ Progress <= (Len(clusters) + 2) * StepsPerDst)
  /\ [](\A s \in Ids : \A d \in Ids :
          Count(joining, <<s, d>>) <= Count(clusters, s) * Count(clusters, d))

\* A run over a list with a repeated identifier has completed after four
\* pairs, two of them the same pair.
C16_Witness ==
  /\ pc = "done" /\ ~Distinct(clusters)
  /\ Len(joining) = 4
  /\ \E s \in Ids : \E d \in Ids : Count(joining, <<s, d>>) = 2

=============================================================================
